---- MODULE Spec2Model ----
(***************************************************************************)
(* Library search engine: the query server of app/app.py over the          *)
(* artifacts written by data/createIndex.py and data/jaccard.py.           *)
(*                                                                         *)
(* Spec is the server answering requests over loaded artifacts; SpecBuild  *)
(* is build_index, then build_jaccard_graph, then the load of the server,  *)
(* over a directory of documents; SpecRebuild is a second run of the       *)
(* builders beside a server that starts at any time; SpecCapped is the two *)
(* builders over documents whose token sets exceed the cap; SpecServe is   *)
(* SpecBuild followed by simple searches; SpecCatalogue is the server over *)
(* a catalogue of six documents.                                           *)
(*                                                                         *)
(* Text is a sequence of one-character strings.  Floating point scores     *)
(* are fixed-point integers: PAGERANK and scores in units of 1/PRUnit,     *)
(* edge weights in units of 1/WUnit; a similarity is the quotient of two   *)
(* integers in lowest terms until the server loads it.                     *)
(***************************************************************************)
EXTENDS Integers, Sequences, FiniteSets, TLC

(* ------------------------------ bounds --------------------------------- *)
\* largest occurrence count of one term in one document
MaxOcc == 2
\* largest total number of indexed occurrences in the small corpora
MaxTotal == 2
\* largest non-negative top_n a request asks for
MaxTopN == 2
\* the cap on the words of a book in the build with a scaled-down cap
CapBound == 2

(* ------------------------- program constants --------------------------- *)
HybridWeight == 10
TopK == 3
DefaultTopN == 5
StatsTop == 10
PreviewCap == 20
PRUnit == 10000000
WUnit == 1000000

(* --------------------------- generic helpers --------------------------- *)
RECURSIVE SumOver(_, _)
SumOver(S, f) ==
  IF S = {} THEN 0
  ELSE LET x == CHOOSE y \in S : TRUE IN f[x] + SumOver(S \ {x}, f)

Range(s) == {s[i] : i \in 1..Len(s)}

Perms(S) ==
  {s \in [1..Cardinality(S) -> S] : \A i, j \in 1..Cardinality(S) : i # j => s[i] # s[j]}

Take(s, n) == SubSeq(s, 1, IF n < Len(s) THEN n ELSE Len(s))

(* ------------------------------ documents ------------------------------ *)
\* file names in ascending lexicographic order
DocIds == <<"A", "B", "C">>
Docs == Range(DocIds)
\* a file name that is in no corpus
UnknownDoc == "Z"
DocRank(d) == CHOOSE i \in 1..Len(DocIds) : DocIds[i] = d
IdLess(x, y) == DocRank(x) < DocRank(y)

RECURSIVE SortedDocs(_)
SortedDocs(S) ==
  IF S = {} THEN <<>>
  ELSE LET m == CHOOSE x \in S : \A y \in S : y = x \/ IdLess(x, y)
       IN <<m>> \o SortedDocs(S \ {m})

(* -------------------------------- text --------------------------------- *)
Whitespace == {" "}

\* str.lower()
Lower(c) ==
  CASE c = "C" -> "c"
    [] c = "A" -> "a"
    [] c = "T" -> "t"
    [] c = "E" -> "e"
    [] OTHER -> c

\* unicodedata.normalize('NFD', c) of one character: canonical decomposition
\* ("e_acute" is the precomposed U+00E9, "acute" the combining mark U+0301)
NFD(c) == IF c = "e_acute" THEN <<"e", "acute">> ELSE <<c>>

RECURSIVE NFKD(_)
NFKD(text) ==
  IF text = <<>> THEN <<>> ELSE NFD(Head(text)) \o NFKD(Tail(text))

RECURSIVE KeepSingle(_)
KeepSingle(text) ==
  IF text = <<>> THEN <<>>
  ELSE (IF Len(NFD(Head(text))) = 1 THEN <<Head(text)>> ELSE <<>>) \o KeepSingle(Tail(text))

normalize_text(text) == KeepSingle(NFKD([i \in 1..Len(text) |-> Lower(text[i])]))

RECURSIVE LStrip(_)
LStrip(s) ==
  IF s # <<>> /\ Head(s) \in Whitespace THEN LStrip(Tail(s)) ELSE s

RECURSIVE RStrip(_)
RStrip(s) ==
  IF s # <<>> /\ s[Len(s)] \in Whitespace THEN RStrip(SubSeq(s, 1, Len(s) - 1)) ELSE s

\* str.strip()
Strip(s) == RStrip(LStrip(s))

\* request.args.get(name, default)
ArgsGet(args, name, default) == IF name \in DOMAIN args THEN args[name] ELSE default

(* ----------------------- int() of a query parameter -------------------- *)
Digits == <<"0", "1", "2", "3", "4", "5", "6", "7", "8", "9">>
IsDigit(c) == \E i \in 1..Len(Digits) : Digits[i] = c
DigitVal(c) == (CHOOSE i \in 1..Len(Digits) : Digits[i] = c) - 1

RECURSIVE DigitsVal(_)
DigitsVal(s) ==
  IF s = <<>> THEN 0 ELSE 10 * DigitsVal(SubSeq(s, 1, Len(s) - 1)) + DigitVal(s[Len(s)])

\* int(text): [ok |-> FALSE] stands for the ValueError it raises
ParseInt(text) ==
  LET s == Strip(text)
      neg == s # <<>> /\ Head(s) = "-"
      d == IF neg THEN Tail(s) ELSE s
  IN IF d # <<>> /\ \A i \in 1..Len(d) : IsDigit(d[i])
     THEN [ok |-> TRUE, value |-> IF neg THEN 0 - DigitsVal(d) ELSE DigitsVal(d)]
     ELSE [ok |-> FALSE, value |-> 0]

(* ------------------- re.compile(p, re.IGNORECASE) ---------------------- *)
(* The patterns of the model are written with literals, ".", "^", "$",     *)
(* "*" and "(".                                                            *)
Anchors == {"^", "$"}

\* re.compile succeeds: no unterminated group, every "*" repeats an atom
Compiles(p) ==
  /\ \A i \in 1..Len(p) : p[i] # "("
  /\ \A i \in 1..Len(p) : p[i] = "*" => (i > 1 /\ p[i - 1] \notin Anchors \cup {"*"})

AtomMatches(pc, wc) == pc = "." \/ Lower(pc) = Lower(wc)

RECURSIVE MatchHere(_, _, _, _)
MatchHere(p, i, w, j) ==
  IF i > Len(p) THEN TRUE
  ELSE IF p[i] = "^" THEN j = 1 /\ MatchHere(p, i + 1, w, j)
  ELSE IF p[i] = "$" THEN j = Len(w) + 1 /\ MatchHere(p, i + 1, w, j)
  ELSE IF i + 1 <= Len(p) /\ p[i + 1] = "*"
       THEN \E k \in j..(Len(w) + 1) :
              /\ \A m \in j..(k - 1) : AtomMatches(p[i], w[m])
              /\ MatchHere(p, i + 2, w, k)
  ELSE j <= Len(w) /\ AtomMatches(p[i], w[j]) /\ MatchHere(p, i + 1, w, j + 1)

\* pattern.search(word)
PatternSearch(p, w) == \E j \in 1..(Len(w) + 1) : MatchHere(p, 1, w, j)

(* ------------------------------ vocabulary ----------------------------- *)
cat == <<"c", "a", "t">>
car == <<"c", "a", "r">>
dog == <<"d", "o", "g">>
SmallTerms == {cat, car}

\* a vocabulary with more terms than the preview of matching words holds
WideLetters == <<"a", "c", "t", "r", "o">>
WideCount == Len(WideLetters) * Len(WideLetters)
WideTerm(i) ==
  <<"z", WideLetters[((i - 1) \div Len(WideLetters)) + 1],
         WideLetters[((i - 1) % Len(WideLetters)) + 1]>>

(* ------------------- artifacts written by the builders ----------------- *)
\* index.json entry of one term: "files" lists the documents in the order
\* build_index met them (sorted file names), "occurrences" their counts
IndexEntry(posted, count) ==
  [files |-> SortedDocs(posted), occurrences |-> [d \in posted |-> count[d]]]

OccChoices ==
  {o \in [SmallTerms \X Docs -> 0..MaxOcc] : SumOver(SmallTerms \X Docs, o) <= MaxTotal}

Posted(o, t) == {d \in Docs : o[<<t, d>>] > 0}
Present(o) == {t \in SmallTerms : Posted(o, t) # {}}

SmallIndex(o) ==
  [t \in Present(o) |-> IndexEntry(Posted(o, t), [d \in Docs |-> o[<<t, d>>]])]

\* index.json and books_list.json of one run of build_index over the three
\* documents: the key order of the index is the order of first occurrence
\* in the corpus; the book list holds every file, indexed words or not
SmallIndexArtifacts ==
  UNION {
    {[index |-> SmallIndex(o), keys |-> k, books |-> SortedDocs(Docs)] :
        k \in Perms(Present(o))}
    : o \in OccChoices}

WideDoc(i) == IF i > PreviewCap THEN "C" ELSE IF i % 2 = 1 THEN "A" ELSE "B"
WideIndexArtifact ==
  [index |-> [t \in {WideTerm(i) : i \in 1..WideCount} |->
                LET i == CHOOSE n \in 1..WideCount : WideTerm(n) = t
                IN IndexEntry({WideDoc(i)}, [d \in Docs |-> 1])],
   keys |-> [i \in 1..WideCount |-> WideTerm(i)],
   books |-> DocIds]

IndexArtifacts == SmallIndexArtifacts \cup {WideIndexArtifact}

\* jaccard_graph.gpickle: an undirected weighted graph; an edge is the set
\* of its two ends
Edge(u, v) == {u, v}
\* the graph of the corpus A = "the cat sat", B = "the cat ran", C = "dogs bark"
GraphAB ==
  [nodes |-> {"A", "B", "C"}, nodelist |-> <<"A", "B", "C">>,
   weight |-> (Edge("A", "B") :> 333333)]
\* a path A - B - C
GraphPath ==
  [nodes |-> {"A", "B", "C"}, nodelist |-> <<"A", "B", "C">>,
   weight |-> (Edge("A", "B") :> 500000) @@ (Edge("B", "C") :> 200000)]
\* a graph built before document C joined the corpus
GraphTwo ==
  [nodes |-> {"A", "B"}, nodelist |-> <<"A", "B">>,
   weight |-> (Edge("A", "B") :> 250000)]
GraphArtifacts == {GraphAB, GraphPath, GraphTwo}

\* nx.pagerank(G) (damping 0.85, tolerance 1e-6) of the graphs above, in
\* units of 1/PRUnit
pagerank(G) ==
  CASE G = GraphAB -> ("A" :> 4651162) @@ ("B" :> 4651162) @@ ("C" :> 697677)
    [] G = GraphPath -> ("A" :> 3453673) @@ ("B" :> 4864858) @@ ("C" :> 1681469)
    [] G = GraphTwo -> ("A" :> 5000000) @@ ("B" :> 5000000)

HasNode(G, n) == n \in G.nodes
HasEdge(G, u, v) == Edge(u, v) \in DOMAIN G.weight
Neighbors(G, n) == {m \in G.nodes : m # n /\ HasEdge(G, n, m)}
Degree(G, n) == Cardinality(Neighbors(G, n))
NumberOfNodes(G) == Cardinality(G.nodes)
NumberOfEdges(G) == Cardinality(DOMAIN G.weight)
\* round(nx.density(G), 6), in units of 1/WUnit
Density(G) ==
  LET n == NumberOfNodes(G)
      d == n * (n - 1)
  IN IF n <= 1 THEN 0 ELSE (2 * (2 * NumberOfEdges(G) * WUnit) + d) \div (2 * d)

(* ======================= the builders: text to tokens ================== *)
AsciiLower ==
  {"a", "b", "c", "d", "e", "f", "g", "h", "i", "j", "k", "l", "m",
   "n", "o", "p", "q", "r", "s", "t", "u", "v", "w", "x", "y", "z"}
\* the upper-case letters Lower knows
AsciiUpper == {"C", "A", "T", "E"}
\* \w of re on str: letters, digits and "_"; a combining mark is none of them
IsWordChar(c) == c \in AsciiLower \cup AsciiUpper \cup {"e_acute", "_"} \/ IsDigit(c)
\* [a-zA-Z...À-ÿ]: ASCII and Latin-1 letters
IsTokenLetter(c) == c \in AsciiLower \cup AsciiUpper \cup {"e_acute"}

\* a byte that is no valid UTF-8
InvalidByte == "xFF"
IsValidByte(b) == b # InvalidByte
\* f.read() of a file opened with encoding="utf-8", errors="ignore"
Decode(bytes) == SelectSeq(bytes, IsValidByte)

\* str.split(): the maximal runs of non-whitespace characters
RECURSIVE Split(_)
Split(text) ==
  LET s == LStrip(text)
  IN IF s = <<>> THEN <<>>
     ELSE LET n == CHOOSE k \in 1..Len(s) :
                     /\ \A i \in 1..k : s[i] \notin Whitespace
                     /\ (k = Len(s) \/ s[k + 1] \in Whitespace)
          IN <<SubSeq(s, 1, n)>> \o Split(SubSeq(s, n + 1, Len(s)))

STOPWORDS ==
  {<<"l", "e">>, <<"l", "a">>, <<"l", "e", "s">>, <<"d", "e">>, <<"d", "u">>,
   <<"d", "e", "s">>, <<"e", "t">>, <<"o", "r">>, <<"m", "a", "i", "s">>,
   <<"d", "o", "n", "c">>, <<"e", "t">>, <<"o", "u">>, <<"u", "n">>,
   <<"u", "n", "e">>, <<"d", "e", "s">>, <<"a", "u">>, <<"a", "u", "x">>,
   <<"p", "a", "r">>, <<"p", "o", "u", "r">>, <<"s", "u", "r">>,
   <<"a", "v", "e", "c">>, <<"s", "a", "n", "s">>, <<"s", "o", "u", "s">>,
   <<"e", "n", "t", "r", "e">>, <<"d", "a", "n", "s">>,
   <<"c", "h", "e", "z">>, <<"v", "e", "r", "s">>,
   <<"d", "e", "p", "u", "i", "s">>, <<"j", "u", "s", "q", "u">>,
   <<"a_grave">>, <<"a">>, <<"e", "n">>, <<"i", "s">>, <<"i", "t">>,
   <<"t", "h", "e">>, <<"a">>, <<"a", "n">>, <<"a", "n", "d">>, <<"o", "r">>,
   <<"b", "u", "t">>, <<"i", "n">>, <<"o", "n">>, <<"a", "t">>, <<"t", "o">>,
   <<"f", "o", "r">>, <<"o", "f">>, <<"b", "y">>, <<"f", "r", "o", "m">>,
   <<"u", "p">>, <<"a", "b", "o", "u", "t">>, <<"o", "u", "t">>,
   <<"i", "f">>, <<"a", "s">>, <<"b", "e">>, <<"b", "e", "e", "n">>,
   <<"b", "e", "i", "n", "g">>, <<"h", "a", "v", "e">>, <<"h", "a", "s">>,
   <<"h", "a", "d">>, <<"d", "o">>, <<"d", "o", "e", "s">>,
   <<"d", "i", "d">>, <<"w", "i", "l", "l">>, <<"w", "o", "u", "l", "d">>,
   <<"c", "o", "u", "l", "d">>, <<"s", "h", "o", "u", "l", "d">>}

\* normalize_text of the index builder: the same code as the server's
index_normalize_text(text) == KeepSingle(NFKD([i \in 1..Len(text) |-> Lower(text[i])]))

\* the None that clean_word returns for a rejected word
None == <<"None">>
clean_word(word) ==
  LET w == SelectSeq(word, IsWordChar)
  IN IF Len(w) > 2 /\ w \notin STOPWORDS THEN w ELSE None

MIN_WORD_LENGTH == 3
MAX_WORDS_PER_BOOK == 50000

normalize_word(word) == KeepSingle(NFKD([i \in 1..Len(word) |-> Lower(word[i])]))

\* the maximal runs of \w characters of a text
RECURSIVE WordRuns(_)
WordRuns(text) ==
  IF text = <<>> THEN <<>>
  ELSE IF ~IsWordChar(Head(text)) THEN WordRuns(Tail(text))
  ELSE LET n == CHOOSE k \in 1..Len(text) :
                  /\ \A i \in 1..k : IsWordChar(text[i])
                  /\ (k = Len(text) \/ ~IsWordChar(text[k + 1]))
       IN <<SubSeq(text, 1, n)>> \o WordRuns(SubSeq(text, n + 1, Len(text)))

AllTokenLetters(word) == \A i \in 1..Len(word) : IsTokenLetter(word[i])
\* re.findall(r'\b[letters]+\b', text): a run of letters matches when a word
\* boundary is on both sides of it, that is when it is a whole \w run
FindWords(text) == SelectSeq(WordRuns(text), AllTokenLetters)

tokenize_text(text) ==
  {word_norm \in {normalize_word(word) : word \in Range(FindWords(text))} :
     Len(word_norm) >= MIN_WORD_LENGTH}

\* set(list(words)[:max_words]): list(words) is in the iteration order of a
\* set of str, which follows the hashes of the run (they are salted per
\* process), so any max_words of the elements can be the ones kept
first_listed(words, max_words) ==
  {s \in SUBSET words : Cardinality(s) = max_words}

\* the results load_book_words can return for a file when the cap is
\* max_words: the empty set when reading raises, the token set, or the
\* max_words elements that the truncation keeps
load_book_words_capped(file, max_words) ==
  IF ~file.readable THEN {{}}
  ELSE LET words == tokenize_text(Decode(file.bytes))
       IN IF max_words # 0 /\ Cardinality(words) > max_words
          THEN first_listed(words, max_words)
          ELSE {words}
load_book_words(file) == load_book_words_capped(file, MAX_WORDS_PER_BOOK)

(* --------------------------- Jaccard similarity ------------------------ *)
\* a float that is the quotient of two small integers, in lowest terms
RECURSIVE Gcd(_, _)
Gcd(a, b) == IF b = 0 THEN a ELSE Gcd(b, a % b)
Quotient(n, d) == [num |-> n \div Gcd(n, d), den |-> d \div Gcd(n, d)]
Zero == [num |-> 0, den |-> 1]
\* > instead of >=
MoreThan(x, y) == x.num * y.den > y.num * x.den
AtLeast(x, y) == x.num * y.den >= y.num * x.den
JACCARD_THRESHOLD == Quotient(1, 10)

\* the intersection over the first set instead of over the union
jaccard_over_first(set1, set2) ==
  IF Cardinality(set1) = 0 \/ Cardinality(set2) = 0 THEN Zero
  ELSE Quotient(Cardinality(set1 \cap set2), Cardinality(set1))

calculate_jaccard(set1, set2) ==
  IF Cardinality(set1) = 0 \/ Cardinality(set2) = 0 THEN Zero
  ELSE LET intersection == Cardinality(set1 \cap set2)
           union == Cardinality(set1 \cup set2)
       IN IF union = 0 THEN Zero ELSE Quotient(intersection, union)

(* ------------------------------ the corpus ----------------------------- *)
\* file contents: the three documents of the example corpus, a file of one
\* invalid byte, a text with capitals, punctuation and an accent, and three
\* texts whose token sets have similarities 1/10, 1/11 and 6/7
TextCatSat == <<"t", "h", "e", " ", "c", "a", "t", " ", "s", "a", "t">>
TextCatRan == <<"t", "h", "e", " ", "c", "a", "t", " ", "r", "a", "n">>
TextDogsBark == <<"d", "o", "g", "s", " ", "b", "a", "r", "k">>
TextInvalidOnly == <<"xFF">>
TextAccents ==
  <<"C", "a", "t", ",", " ", "c", "a", "t", " ", "c", "a", "f", "e_acute">>
TextFive ==
  <<"c", "a", "t", " ", "a", "a", "a", " ", "b", "b", "b", " ", "c", "c",
    "c", " ", "d", "d", "d">>
TextSix ==
  <<"c", "a", "t", " ", "e", "e", "e", " ", "f", "f", "f", " ", "g", "g",
    "g", " ", "h", "h", "h", " ", "i", "i", "i">>
TextSeven ==
  <<"c", "a", "t", " ", "e", "e", "e", " ", "f", "f", "f", " ", "g", "g",
    "g", " ", "h", "h", "h", " ", "i", "i", "i", " ", "j", "j", "j">>
Texts ==
  {TextCatSat, TextCatRan, TextDogsBark, TextInvalidOnly,
   TextAccents, TextFive, TextSix, TextSeven}

\* a directory entry that open() cannot read (a subdirectory, a file without
\* read permission)
Unreadable == [readable |-> FALSE, bytes |-> <<>>]
FileChoices == {[readable |-> TRUE, bytes |-> t] : t \in Texts} \cup {Unreadable}
\* DATA_DIR: file name -> file, for any set of the file names
Corpora == UNION {[S -> FileChoices] : S \in SUBSET Docs}

(* -------------------------------- state -------------------------------- *)
VARIABLES
  INDEX,       \* term -> [files, occurrences], loaded from index.json
  INDEX_keys,  \* the terms in the key order of the loaded dict
  BOOKS_LIST,  \* loaded from books_list.json
  GRAPH,       \* loaded from jaccard_graph.gpickle
  PAGERANK,    \* node -> score, computed once at start
  request,     \* the request handled last
  response,    \* the response to it
  trace        \* what the handler touched while answering

data == <<INDEX, INDEX_keys, BOOKS_LIST, GRAPH, PAGERANK>>

(* ------------------------- state of the builders ----------------------- *)
VARIABLES
  corpus,      \* DATA_DIR: file name -> file
  indexer,     \* the run of build_index: position and local variables
  grapher,     \* the run of build_jaccard_graph: position and local variables
  disk,        \* index.json, books_list.json and jaccard_graph.gpickle
  server       \* the position of the server process in its module-level load

build == <<corpus, indexer, grapher, disk, server>>

\* an absent file, and a file holding a complete value
Missing == [exists |-> FALSE, complete |-> FALSE, content |-> <<>>]
Written(content) == [exists |-> TRUE, complete |-> TRUE, content |-> content]
NoFiles == [index_json |-> Missing, books_list_json |-> Missing, graph |-> Missing]

EmptyDict == [x \in {} |-> 0]
EmptyGraph == [nodes |-> {}, nodelist |-> <<>>, weight |-> EmptyDict]

IndexerIdle ==
  [pc |-> "idle", files |-> <<>>, i |-> 1, index |-> EmptyDict, keys |-> <<>>,
   book_list |-> <<>>]
GrapherIdle ==
  [pc |-> "idle", books |-> <<>>, k |-> 1, book_words |-> EmptyDict, G |-> EmptyGraph,
   i |-> 1, j |-> 2, edges_added |-> 0, comparisons_done |-> 0]

\* no builder runs beside a server that has loaded its artifacts
BuildersIdle ==
  /\ corpus = EmptyDict
  /\ indexer = IndexerIdle
  /\ grapher = GrapherIdle
  /\ disk = NoFiles
  /\ server = "serving"

vars ==
  <<INDEX, INDEX_keys, BOOKS_LIST, GRAPH, PAGERANK, request, response, trace,
    corpus, indexer, grapher, disk, server>>

NoArgs == [x \in {} |-> <<>>]
NoTrace == [indexRead |-> FALSE, evaluated |-> {}]

Init ==
  /\ \E ia \in IndexArtifacts, ga \in GraphArtifacts :
       /\ INDEX = ia.index
       /\ INDEX_keys = ia.keys
       /\ BOOKS_LIST = ia.books
       /\ GRAPH = ga
       /\ PAGERANK = pagerank(ga)
  /\ request = [op |-> "none", args |-> NoArgs]
  /\ response = [status |-> 0, error |-> "", body |-> NoArgs]
  /\ trace = NoTrace
  /\ BuildersIdle

(* ------------------------------- ranking ------------------------------- *)
\* dict.get(key, default)
DictGet(dict, key, default) == IF key \in DOMAIN dict THEN dict[key] ELSE default

\* round(x, 6) of a score in units of 1/PRUnit
Round6(x) ==
  LET q == PRUnit \div 1000000 IN ((x + (q \div 2)) \div q) * q

\* an element goes before the elements of its own score
InsertBeforeEqual(sorted, r) ==
  LET k == Cardinality({i \in 1..Len(sorted) : sorted[i].score > r.score})
  IN SubSeq(sorted, 1, k) \o <<r>> \o SubSeq(sorted, k + 1, Len(sorted))

\* list.sort(key=score, reverse=True) is stable: an element goes after every
\* element whose score is at least its own
InsertByScore(sorted, r) ==
  LET k == Cardinality({i \in 1..Len(sorted) : sorted[i].score >= r.score})
  IN SubSeq(sorted, 1, k) \o <<r>> \o SubSeq(sorted, k + 1, Len(sorted))

RECURSIVE SortByScoreDesc(_)
SortByScoreDesc(s) ==
  IF s = <<>> THEN <<>>
  ELSE InsertByScore(SortByScoreDesc(SubSeq(s, 1, Len(s) - 1)), s[Len(s)])

\* the boost factor left out of the authority term
ScoreUnweighted(occurrences, pagerank_score, ranking_type) ==
  occurrences * (PRUnit + pagerank_score)

\* the score rank_results stores, in units of 1/PRUnit
Score(occurrences, pagerank_score, ranking_type) ==
  occurrences * (PRUnit + pagerank_score * HybridWeight)

RankedEntry(filename, query_word, ranking_type) ==
  LET occurrences == DictGet(INDEX[query_word].occurrences, filename, 0)
      pagerank_score == DictGet(PAGERANK, filename, 0)
  IN [filename |-> filename,
      occurrences |-> occurrences,
      pagerank |-> Round6(pagerank_score),
      score |-> Score(occurrences, pagerank_score, ranking_type)]

rank_results(results, query_word, ranking_type) ==
  SortByScoreDesc([i \in 1..Len(results) |-> RankedEntry(results[i], query_word, ranking_type)])

(* ------------------------------ responses ------------------------------ *)
Ok(body) == [status |-> 200, error |-> "", body |-> body]
\* jsonify({"error": ...}), code
ErrorResponse(code, kind) == [status |-> code, error |-> kind, body |-> NoArgs]
\* an exception no handler catches: the framework answers 500
Unhandled(exc) == [status |-> 500, error |-> exc, body |-> NoArgs]

(* -------------------------------- /search ------------------------------ *)
search(args) ==
  LET query == Strip(ArgsGet(args, "query", <<>>))
      ranking_type == ArgsGet(args, "ranking", "hybrid")
      query_normalized == normalize_text(query)
  IN IF query = <<>>
     THEN [response |-> ErrorResponse(400, "empty_query"), trace |-> NoTrace]
     ELSE IF query_normalized \notin DOMAIN INDEX
     THEN [response |-> Ok([query |-> query, results |-> <<>>, count |-> 0,
                            message |-> "Aucun resultat"]),
           trace |-> [indexRead |-> TRUE, evaluated |-> {}]]
     ELSE LET files == INDEX[query_normalized].files
              ranked == rank_results(files, query_normalized, ranking_type)
          IN [response |-> Ok([query |-> query, results |-> ranked,
                               count |-> Len(ranked), ranking_type |-> ranking_type]),
              trace |-> [indexRead |-> TRUE, evaluated |-> {}]]

(* --------------------------- /advanced-search -------------------------- *)
MatchingWords(pattern) ==
  LET Hit(word) == PatternSearch(pattern, word) IN SelectSeq(INDEX_keys, Hit)

\* the candidates gathered from the previewed words only
AllFilesOfPreview(matching_words) ==
  UNION {Range(INDEX[w].files) : w \in Range(Take(matching_words, PreviewCap))}

AllFiles(matching_words) == UNION {Range(INDEX[w].files) : w \in Range(matching_words)}

\* a pattern that does not compile answered like one that matches nothing
InvalidPatternAsNoMatch(regex_pattern) ==
  [response |-> Ok([regex |-> regex_pattern, results |-> <<>>, count |-> 0,
                    message |-> "Aucun mot ne correspond a la regex"]),
   trace |-> NoTrace]

\* except re.error: the 400 answer
InvalidPattern(regex_pattern) ==
  [response |-> ErrorResponse(400, "invalid_regex"), trace |-> NoTrace]

\* order: the iteration order of the set all_files
advanced_search(args, order) ==
  LET regex_pattern == Strip(ArgsGet(args, "regex", <<>>))
      ranking_type == ArgsGet(args, "ranking", "hybrid")
  IN IF regex_pattern = <<>>
     THEN [response |-> ErrorResponse(400, "empty_query"), trace |-> NoTrace]
     ELSE IF ~Compiles(regex_pattern)
     THEN InvalidPattern(regex_pattern)
     ELSE LET matching_words == MatchingWords(regex_pattern)
              tr == [indexRead |-> TRUE, evaluated |-> Range(INDEX_keys)]
          IN IF matching_words = <<>>
             THEN [response |-> Ok([regex |-> regex_pattern, results |-> <<>>, count |-> 0,
                                    message |-> "Aucun mot ne correspond a la regex"]),
                   trace |-> tr]
             ELSE LET ranked == rank_results(order, matching_words[1], ranking_type)
                  IN [response |-> Ok([regex |-> regex_pattern,
                                       matching_words |-> Take(matching_words, PreviewCap),
                                       results |-> ranked,
                                       count |-> Len(ranked),
                                       ranking_type |-> ranking_type]),
                      trace |-> tr]

\* the orders in which list(all_files) can hand the candidates over
CandidateOrders(args) ==
  LET regex_pattern == Strip(ArgsGet(args, "regex", <<>>))
  IN IF regex_pattern # <<>> /\ Compiles(regex_pattern)
     THEN Perms(AllFiles(MatchingWords(regex_pattern)))
     ELSE {<<>>}

(* ----------------------------- /suggestions --------------------------- *)
\* list[:n]: a negative n drops the last -n elements
Slice(s, n) ==
  IF n >= 0 THEN Take(s, n)
  ELSE SubSeq(s, 1, IF Len(s) + n > 0 THEN Len(s) + n ELSE 0)

\* round(x, 4) of a weight in units of 1/WUnit
Round4(x) ==
  LET q == WUnit \div 10000 IN ((x + (q \div 2)) \div q) * q

InsertByPagerank(sorted, r) ==
  LET k == Cardinality({i \in 1..Len(sorted) : sorted[i].pagerank >= r.pagerank})
  IN SubSeq(sorted, 1, k) \o <<r>> \o SubSeq(sorted, k + 1, Len(sorted))

\* the entries left in the iteration order of the set
InIterationOrder(s) == s

RECURSIVE SortByPagerankDesc(_)
SortByPagerankDesc(s) ==
  IF s = <<>> THEN <<>>
  ELSE InsertByPagerank(SortByPagerankDesc(SubSeq(s, 1, Len(s) - 1)), s[Len(s)])

TopResults(query_normalized) ==
  Take(rank_results(INDEX[query_normalized].files, query_normalized, "hybrid"), TopK)

SuggestionsSet(top_results) ==
  (UNION {Neighbors(GRAPH, top_results[i].filename) :
            i \in {j \in 1..Len(top_results) : HasNode(GRAPH, top_results[j].filename)}})
    \ {top_results[i].filename : i \in 1..Len(top_results)}

SuggestionEntry(s, top_results) ==
  LET first == top_results[1].filename
  IN [filename |-> s,
      pagerank |-> Round6(DictGet(PAGERANK, s, 0)),
      similarity_score |->
        IF HasNode(GRAPH, s) /\ HasNode(GRAPH, first) /\ HasEdge(GRAPH, first, s)
        THEN Round4(GRAPH.weight[Edge(first, s)])
        ELSE 0]

\* int(request.args.get("top_n", 5))
TopN(args) ==
  IF "top_n" \in DOMAIN args THEN ParseInt(args.top_n) ELSE [ok |-> TRUE, value |-> DefaultTopN]

\* order: the iteration order of suggestions_set
suggestions(args, order) ==
  LET query == Strip(ArgsGet(args, "query", <<>>))
      top_n == TopN(args)
      query_normalized == normalize_text(query)
  IN IF ~top_n.ok
     THEN [response |-> Unhandled("ValueError"), trace |-> NoTrace]
     ELSE IF query = <<>>
     THEN [response |-> ErrorResponse(400, "empty_query"), trace |-> NoTrace]
     ELSE IF query_normalized \notin DOMAIN INDEX
     THEN [response |-> Ok([query |-> query, suggestions |-> <<>>,
                            message |-> "Mot non trouve"]),
           trace |-> [indexRead |-> TRUE, evaluated |-> {}]]
     ELSE LET top_results == TopResults(query_normalized)
              sorted == SortByPagerankDesc(
                          [i \in 1..Len(order) |-> SuggestionEntry(order[i], top_results)])
          IN [response |-> Ok([query |-> query,
                               top_results |-> Take(top_results, TopK),
                               suggestions |-> Slice(sorted, top_n.value),
                               count |-> Len(sorted)]),
              trace |-> [indexRead |-> TRUE, evaluated |-> {}]]

\* the orders in which suggestions_set can be iterated
SuggestionOrders(args) ==
  LET query == Strip(ArgsGet(args, "query", <<>>))
      query_normalized == normalize_text(query)
  IN IF query # <<>> /\ query_normalized \in DOMAIN INDEX
     THEN Perms(SuggestionsSet(TopResults(query_normalized)))
     ELSE {<<>>}

(* ------------------------ /book, /health, /stats ----------------------- *)
\* the lookup made in the graph instead of the book list
get_book_of_graph(filename) ==
  IF ~HasNode(GRAPH, filename)
  THEN ErrorResponse(404, "not_found")
  ELSE Ok([filename |-> filename,
           pagerank |-> Round6(DictGet(PAGERANK, filename, 0)),
           graph_degree |-> Degree(GRAPH, filename),
           in_graph |-> TRUE])

get_book(filename) ==
  IF filename \notin Range(BOOKS_LIST)
  THEN ErrorResponse(404, "not_found")
  ELSE Ok([filename |-> filename,
           pagerank |-> Round6(DictGet(PAGERANK, filename, 0)),
           graph_degree |-> IF HasNode(GRAPH, filename) THEN Degree(GRAPH, filename) ELSE 0,
           in_graph |-> HasNode(GRAPH, filename)])

health ==
  Ok([status |-> "ok",
      books_count |-> Len(BOOKS_LIST),
      vocabulary_size |-> Cardinality(DOMAIN INDEX),
      graph_nodes |-> NumberOfNodes(GRAPH),
      graph_edges |-> NumberOfEdges(GRAPH)])

\* PAGERANK.items() in node order, as [filename, score] pairs
PagerankItems ==
  [i \in 1..Len(GRAPH.nodelist) |->
     [filename |-> GRAPH.nodelist[i], pagerank |-> PAGERANK[GRAPH.nodelist[i]]]]

stats ==
  LET top == Take(SortByPagerankDesc(PagerankItems), StatsTop)
  IN Ok([total_books |-> Len(BOOKS_LIST),
         vocabulary_size |-> Cardinality(DOMAIN INDEX),
         graph_nodes |-> NumberOfNodes(GRAPH),
         graph_edges |-> NumberOfEdges(GRAPH),
         graph_density |-> Density(GRAPH),
         top_pagerank_books |->
           [i \in 1..Len(top) |->
              [filename |-> top[i].filename, pagerank |-> Round6(top[i].pagerank)]]])

(* ------------------------------- requests ------------------------------ *)
\* queries: none, blank, known terms (plain, padded and capitalised), unknown
QueryInputs == {<<>>, <<" ">>, cat, <<" ", "C", "a", "t", " ">>, car, dog}
RankingInputs == {"hybrid", "occurrences", "pagerank"}
\* patterns: none, blank, padded, substring, wildcard, anchor, star, the
\* prefix of the wide vocabulary, no match, and three that do not compile
PatternInputs ==
  {<<>>, <<" ">>, <<" ", "C", "A">>, <<"c", "a">>, <<"c", ".", "t">>, <<"r", "$">>,
   <<"a", "*">>, <<"z">>, <<"q">>, <<"(">>, <<"*", "a">>, <<"^", "*">>}

\* the ranking mode is passed with the queries for cat and the pattern "ca"
SearchArgs ==
  {[query |-> q] : q \in QueryInputs}
    \cup {[query |-> cat, ranking |-> r] : r \in RankingInputs}
    \cup {NoArgs}
\* top_n as sent: digits, a negative number, or text that is no number
DigitStr(n) == <<Digits[n + 1]>>
TopNInputs == {DigitStr(n) : n \in 0..MaxTopN} \cup {<<"-", "1">>, <<"a", "b", "c">>}
TopNQueries == {<<>>, cat, dog}
SuggestionArgs ==
  {[query |-> q] : q \in QueryInputs}
    \cup {[query |-> q, top_n |-> t] : q \in TopNQueries, t \in TopNInputs}
    \cup {NoArgs}
AdvancedArgs ==
  {[regex |-> p] : p \in PatternInputs}
    \cup {[regex |-> <<"c", "a">>, ranking |-> r] : r \in RankingInputs}
    \cup {NoArgs}

\* a search that sorts the posting list of the index in place
SearchSortingInPlace ==
  \E args \in SearchArgs :
    LET out == search(args)
        query == normalize_text(Strip(ArgsGet(args, "query", <<>>)))
    IN /\ request' = [op |-> "search", args |-> args]
       /\ response' = out.response
       /\ trace' = out.trace
       /\ INDEX' = IF query \in DOMAIN INDEX
                   THEN [INDEX EXCEPT ![query].files =
                           [i \in 1..Len(@) |-> out.response.body.results[i].filename]]
                   ELSE INDEX
       /\ UNCHANGED <<INDEX_keys, BOOKS_LIST, GRAPH, PAGERANK, build>>

Search ==
  \E args \in SearchArgs :
    LET out == search(args)
    IN /\ request' = [op |-> "search", args |-> args]
       /\ response' = out.response
       /\ trace' = out.trace
       /\ UNCHANGED <<data, build>>

AdvancedSearch ==
  \E args \in AdvancedArgs : \E order \in CandidateOrders(args) :
    LET out == advanced_search(args, order)
    IN /\ request' = [op |-> "advanced_search", args |-> args]
       /\ response' = out.response
       /\ trace' = out.trace
       /\ UNCHANGED <<data, build>>

Suggestions ==
  \E args \in SuggestionArgs : \E order \in SuggestionOrders(args) :
    LET out == suggestions(args, order)
    IN /\ request' = [op |-> "suggestions", args |-> args]
       /\ response' = out.response
       /\ trace' = out.trace
       /\ UNCHANGED <<data, build>>

GetBook ==
  \E filename \in Docs \cup {UnknownDoc} :
    /\ request' = [op |-> "get_book", args |-> [filename |-> filename]]
    /\ response' = get_book(filename)
    /\ trace' = NoTrace
    /\ UNCHANGED <<data, build>>

Health ==
  /\ request' = [op |-> "health", args |-> NoArgs]
  /\ response' = health
  /\ trace' = NoTrace
  /\ UNCHANGED <<data, build>>

Stats ==
  /\ request' = [op |-> "stats", args |-> NoArgs]
  /\ response' = stats
  /\ trace' = NoTrace
  /\ UNCHANGED <<data, build>>

Next == Search \/ AdvancedSearch \/ Suggestions \/ GetBook \/ Health \/ Stats

Spec == Init /\ [][Next]_vars

(* ========================= build_index (createIndex.py) ================ *)
\* index[cleaned][filename] = 1 instead of += 1
CountWordOnce(st, cleaned, filename) ==
  LET known == cleaned \in DOMAIN st.index
      files_dict == IF known THEN st.index[cleaned] ELSE [keys |-> <<>>, value |-> EmptyDict]
      seen == filename \in DOMAIN files_dict.value
      counted ==
        [keys |-> IF seen THEN files_dict.keys ELSE Append(files_dict.keys, filename),
         value |-> IF seen THEN files_dict.value ELSE files_dict.value @@ (filename :> 1)]
  IN [index |-> IF known THEN [st.index EXCEPT ![cleaned] = counted]
                ELSE st.index @@ (cleaned :> counted),
      keys |-> IF known THEN st.keys ELSE Append(st.keys, cleaned)]

\* index[cleaned][filename] += 1 on the nested defaultdicts; a dict is its
\* value with its keys in insertion order
CountWord(st, cleaned, filename) ==
  LET known == cleaned \in DOMAIN st.index
      files_dict == IF known THEN st.index[cleaned] ELSE [keys |-> <<>>, value |-> EmptyDict]
      seen == filename \in DOMAIN files_dict.value
      counted ==
        [keys |-> IF seen THEN files_dict.keys ELSE Append(files_dict.keys, filename),
         value |-> IF seen THEN [files_dict.value EXCEPT ![filename] = @ + 1]
                   ELSE files_dict.value @@ (filename :> 1)]
  IN [index |-> IF known THEN [st.index EXCEPT ![cleaned] = counted]
                ELSE st.index @@ (cleaned :> counted),
      keys |-> IF known THEN st.keys ELSE Append(st.keys, cleaned)]

\* for word in words: cleaned = clean_word(word); if cleaned: count it
RECURSIVE IndexWords(_, _, _)
IndexWords(st, words, filename) ==
  IF words = <<>> THEN st
  ELSE LET cleaned == clean_word(Head(words))
       IN IndexWords(IF cleaned # None THEN CountWord(st, cleaned, filename) ELSE st,
                     Tail(words), filename)

\* one iteration of the loop over the files: open() raises for an entry that
\* cannot be read and nothing catches it
IndexOneFile(ix, dir) ==
  LET filename == ix.files[ix.i]
  IN IF filename \notin DOMAIN dir \/ ~dir[filename].readable
     THEN [ix EXCEPT !.pc = "aborted"]
     ELSE LET text == Decode(dir[filename].bytes)
              normalized == index_normalize_text(text)
              words == Split(normalized)
              st == IndexWords([index |-> ix.index, keys |-> ix.keys], words, filename)
          IN [ix EXCEPT !.index = st.index, !.keys = st.keys,
                        !.book_list = Append(ix.book_list, filename),
                        !.i = ix.i + 1]

\* index_json: word -> {"files": list(files_dict.keys()), "occurrences": files_dict}
IndexJson(ix) ==
  [index |-> [word \in DOMAIN ix.index |->
                [files |-> ix.index[word].keys, occurrences |-> ix.index[word].value]],
   keys |-> ix.keys]

\* the files in the order os.listdir returned them
listing_order(listing) == listing

InsertById(ordered, d) ==
  LET k == Cardinality({i \in 1..Len(ordered) : IdLess(ordered[i], d)})
  IN SubSeq(ordered, 1, k) \o <<d>> \o SubSeq(ordered, k + 1, Len(ordered))
\* sorted(listing): ascending file names
RECURSIVE sorted(_)
sorted(listing) ==
  IF listing = <<>> THEN <<>>
  ELSE InsertById(sorted(SubSeq(listing, 1, Len(listing) - 1)), listing[Len(listing)])

\* for filename in sorted(os.listdir(DATA_DIR)): os.listdir returns the
\* entries in arbitrary order
IndexListFiles ==
  /\ indexer.pc = "start"
  /\ \E listing \in Perms(DOMAIN corpus) :
       indexer' = [indexer EXCEPT !.pc = "indexing", !.files = sorted(listing)]
  /\ UNCHANGED <<corpus, grapher, disk, server, data, request, response, trace>>

IndexFile ==
  /\ indexer.pc = "indexing"
  /\ indexer.i <= Len(indexer.files)
  /\ indexer' = IndexOneFile(indexer, corpus)
  /\ UNCHANGED <<corpus, grapher, disk, server, data, request, response, trace>>

\* a file opened for writing is empty until the dump is flushed into it
Truncated == [exists |-> TRUE, complete |-> FALSE, content |-> <<>>]

\* open("index.json", "w")
IndexOpenIndex ==
  /\ indexer.pc = "indexing"
  /\ indexer.i > Len(indexer.files)
  /\ disk' = [disk EXCEPT !.index_json = Truncated]
  /\ indexer' = [indexer EXCEPT !.pc = "dump_index"]
  /\ UNCHANGED <<corpus, grapher, server, data, request, response, trace>>

\* json.dump(index_json, f) and the close of index.json
IndexDumpIndex ==
  /\ indexer.pc = "dump_index"
  /\ disk' = [disk EXCEPT !.index_json = Written(IndexJson(indexer))]
  /\ indexer' = [indexer EXCEPT !.pc = "open_books"]
  /\ UNCHANGED <<corpus, grapher, server, data, request, response, trace>>

\* open("books_list.json", "w")
IndexOpenBooks ==
  /\ indexer.pc = "open_books"
  /\ disk' = [disk EXCEPT !.books_list_json = Truncated]
  /\ indexer' = [indexer EXCEPT !.pc = "dump_books"]
  /\ UNCHANGED <<corpus, grapher, server, data, request, response, trace>>

\* json.dump(book_list, f) and the close of books_list.json
IndexDumpBooks ==
  /\ indexer.pc = "dump_books"
  /\ disk' = [disk EXCEPT !.books_list_json = Written(indexer.book_list)]
  /\ indexer' = [indexer EXCEPT !.pc = "done"]
  /\ UNCHANGED <<corpus, grapher, server, data, request, response, trace>>

IndexerEnded == indexer.pc \in {"done", "aborted"}

(* ======================= build_jaccard_graph (jaccard.py) ============== *)
\* the inner loop starting at i instead of i + 1
NextPairFromSelf(i, j, n) == IF j < n THEN <<i, j + 1>> ELSE <<i + 1, i + 1>>

\* the pair after (i, j) in "for i in range(n): for j in range(i + 1, n)",
\* counted from 1
NextPair(i, j, n) == IF j < n THEN <<i, j + 1>> ELSE <<i + 1, i + 2>>

\* G.add_edge(u, v, weight=w): an existing edge gets the new weight
AddEdge(G, u, v, w) ==
  [G EXCEPT !.weight = IF Edge(u, v) \in DOMAIN G.weight
                       THEN [G.weight EXCEPT ![Edge(u, v)] = w]
                       ELSE G.weight @@ (Edge(u, v) :> w)]

\* the body of the inner loop for the pair (i, j)
ComparePair(g) ==
  LET book1 == g.books[g.i]
      book2 == g.books[g.j]
      words1 == g.book_words[book1]
      words2 == g.book_words[book2]
      jaccard == calculate_jaccard(words1, words2)
      linked == AtLeast(jaccard, JACCARD_THRESHOLD)
      next == NextPair(g.i, g.j, Len(g.books))
  IN [g EXCEPT !.G = IF linked THEN AddEdge(g.G, book1, book2, jaccard) ELSE g.G,
               !.edges_added = IF linked THEN g.edges_added + 1 ELSE g.edges_added,
               !.comparisons_done = g.comparisons_done + 1,
               !.i = next[1], !.j = next[2],
               !.pc = IF next[2] <= Len(g.books) THEN "compare" ELSE "save"]

\* books = os.listdir(DATA_DIR), in the order the file system lists them;
\* the builder runs after build_index has ended
GraphListBooks ==
  /\ grapher.pc = "start"
  /\ IndexerEnded
  /\ \E books \in Perms(DOMAIN corpus) :
       grapher' = [grapher EXCEPT !.books = books,
                                  !.pc = IF Len(books) = 0 THEN "none" ELSE "load"]
  /\ UNCHANGED <<corpus, indexer, disk, server, data, request, response, trace>>

\* book_words[book] = load_book_words(filepath)
GraphLoadBook ==
  /\ grapher.pc = "load"
  /\ LET book == grapher.books[grapher.k]
     IN \E words \in load_book_words(corpus[book]) :
          grapher' = [grapher EXCEPT !.book_words = grapher.book_words @@ (book :> words),
                                     !.k = grapher.k + 1,
                                     !.pc = IF grapher.k = Len(grapher.books)
                                            THEN "nodes" ELSE "load"]
  /\ UNCHANGED <<corpus, indexer, disk, server, data, request, response, trace>>

\* the same step of a build whose cap is CapBound words per book
GraphLoadBookCapped ==
  /\ grapher.pc = "load"
  /\ LET book == grapher.books[grapher.k]
     IN \E words \in load_book_words_capped(corpus[book], CapBound) :
          grapher' = [grapher EXCEPT !.book_words = grapher.book_words @@ (book :> words),
                                     !.k = grapher.k + 1,
                                     !.pc = IF grapher.k = Len(grapher.books)
                                            THEN "nodes" ELSE "load"]
  /\ UNCHANGED <<corpus, indexer, disk, server, data, request, response, trace>>

\* G = nx.Graph(); G.add_node(book) for every book
GraphAddNodes ==
  /\ grapher.pc = "nodes"
  /\ grapher' = [grapher EXCEPT
                   !.G = [nodes |-> Range(grapher.books), nodelist |-> grapher.books,
                          weight |-> EmptyDict],
                   !.edges_added = 0, !.comparisons_done = 0, !.i = 1, !.j = 2,
                   !.pc = IF Len(grapher.books) >= 2 THEN "compare" ELSE "save"]
  /\ UNCHANGED <<corpus, indexer, disk, server, data, request, response, trace>>

GraphCompare ==
  /\ grapher.pc = "compare"
  /\ grapher' = ComparePair(grapher)
  /\ UNCHANGED <<corpus, indexer, disk, server, data, request, response, trace>>

\* open(OUTPUT_FILE, 'wb')
GraphOpen ==
  /\ grapher.pc = "save"
  /\ disk' = [disk EXCEPT !.graph = Truncated]
  /\ grapher' = [grapher EXCEPT !.pc = "dump"]
  /\ UNCHANGED <<corpus, indexer, server, data, request, response, trace>>

\* pickle.dump(G, f) and the close of jaccard_graph.gpickle
GraphSave ==
  /\ grapher.pc = "dump"
  /\ disk' = [disk EXCEPT !.graph = Written(grapher.G)]
  /\ grapher' = [grapher EXCEPT !.pc = "done"]
  /\ UNCHANGED <<corpus, indexer, server, data, request, response, trace>>

GrapherEnded == grapher.pc \in {"done", "none"}

(* ================== the one-time load of the server (app.py) =========== *)
\* nx.pagerank(G) with its defaults: alpha 0.85, max_iter 100, tol 1e-6,
\* weight="weight".  Scores are in units of 1/PRUnit; the weights enter the
\* transition probabilities in hundredths so that every product fits
Alpha == 85
MaxIter == 100
Tol == PRUnit \div 1000000

PRWeight(G, u, v) ==
  IF u # v /\ Edge(u, v) \in DOMAIN G.weight THEN G.weight[Edge(u, v)] \div (WUnit \div 100)
  ELSE 0
\* the weighted degree of a node
Strength(G, u) == SumOver(G.nodes, [v \in G.nodes |-> PRWeight(G, u, v)])

Abs(x) == IF x < 0 THEN 0 - x ELSE x

\* the dict that maps every element of S to its value under f
RECURSIVE DictOf(_, _)
DictOf(S, f) ==
  IF S = {} THEN EmptyDict
  ELSE LET x == CHOOSE y \in S : TRUE IN (x :> f[x]) @@ DictOf(S \ {x}, f)

\* the iteration without the dangling mass and without the (1 - alpha) * p term
PRStepWithoutTeleport(G, x) ==
  DictOf(G.nodes,
         [n \in G.nodes |->
            (Alpha * SumOver(G.nodes,
                             [m \in G.nodes |->
                                IF Strength(G, m) = 0 THEN 0
                                ELSE (x[m] * PRWeight(G, m, n)) \div Strength(G, m)]))
              \div 100])

\* x = alpha * (x @ A + sum(x[is_dangling]) * dangling_weights) + (1 - alpha) * p
PRStep(G, x) ==
  LET N == Cardinality(G.nodes)
      is_dangling == {m \in G.nodes : Strength(G, m) = 0}
      danglesum == SumOver(is_dangling, x)
      inflow(n) ==
        SumOver(G.nodes \ is_dangling,
                [m \in G.nodes |->
                   IF m \in is_dangling THEN 0
                   ELSE (x[m] * PRWeight(G, m, n)) \div Strength(G, m)])
  IN DictOf(G.nodes,
            [n \in G.nodes |->
               (Alpha * (inflow(n) + danglesum \div N) + (100 - Alpha) * (PRUnit \div N))
                 \div 100])

\* the power iteration: stops when the change is below N * tol, raises
\* PowerIterationFailedConvergence after max_iter steps
RECURSIVE PowerIteration(_, _, _)
PowerIteration(G, x, iter) ==
  IF iter = MaxIter THEN [ok |-> FALSE, scores |-> x]
  ELSE LET y == PRStep(G, x)
           err == SumOver(G.nodes, [n \in G.nodes |-> Abs(y[n] - x[n])])
       IN IF err < Cardinality(G.nodes) * Tol THEN [ok |-> TRUE, scores |-> y]
          ELSE PowerIteration(G, y, iter + 1)

nx_pagerank(G) ==
  IF G.nodes = {} THEN [ok |-> TRUE, scores |-> EmptyDict]
  ELSE PowerIteration(G, DictOf(G.nodes, [n \in G.nodes |-> PRUnit \div Cardinality(G.nodes)]), 0)

\* the float of a similarity, in units of 1/WUnit
FloatOf(q) == (q.num * WUnit) \div q.den
\* pickle.load of the graph file
Unpickle(G) ==
  [nodes |-> G.nodes, nodelist |-> G.nodelist,
   weight |-> [e \in DOMAIN G.weight |-> FloatOf(G.weight[e])]]

\* open() of a missing file raises FileNotFoundError, json.load or pickle.load
\* of a file that is being written raises: the process ends
Readable(file) == file.exists /\ file.complete

\* python app.py, once both builders have ended
ServerStart ==
  /\ server = "off"
  /\ IndexerEnded
  /\ GrapherEnded
  /\ server' = "load_index"
  /\ UNCHANGED <<corpus, indexer, grapher, disk, data, request, response, trace>>

\* INDEX = json.load(index.json)
ServerLoadIndex ==
  /\ server = "load_index"
  /\ IF Readable(disk.index_json)
     THEN /\ INDEX' = disk.index_json.content.index
          /\ INDEX_keys' = disk.index_json.content.keys
          /\ server' = "load_books"
     ELSE /\ server' = "crashed"
          /\ UNCHANGED <<INDEX, INDEX_keys>>
  /\ UNCHANGED <<corpus, indexer, grapher, disk, BOOKS_LIST, GRAPH, PAGERANK,
                 request, response, trace>>

\* BOOKS_LIST = json.load(books_list.json)
ServerLoadBooks ==
  /\ server = "load_books"
  /\ IF Readable(disk.books_list_json)
     THEN /\ BOOKS_LIST' = disk.books_list_json.content
          /\ server' = "load_graph"
     ELSE /\ server' = "crashed"
          /\ UNCHANGED BOOKS_LIST
  /\ UNCHANGED <<corpus, indexer, grapher, disk, INDEX, INDEX_keys, GRAPH, PAGERANK,
                 request, response, trace>>

\* GRAPH = pickle.load(jaccard_graph.gpickle); PAGERANK = nx.pagerank(GRAPH)
ServerLoadGraph ==
  /\ server = "load_graph"
  /\ IF Readable(disk.graph) /\ nx_pagerank(Unpickle(disk.graph.content)).ok
     THEN /\ GRAPH' = Unpickle(disk.graph.content)
          /\ PAGERANK' = nx_pagerank(Unpickle(disk.graph.content)).scores
          /\ server' = "serving"
     ELSE /\ server' = "crashed"
          /\ UNCHANGED <<GRAPH, PAGERANK>>
  /\ UNCHANGED <<corpus, indexer, grapher, disk, INDEX, INDEX_keys, BOOKS_LIST,
                 request, response, trace>>

(* ------------- the pipeline: build_index, build_jaccard_graph, server -- *)
Unloaded ==
  /\ INDEX = EmptyDict
  /\ INDEX_keys = <<>>
  /\ BOOKS_LIST = <<>>
  /\ GRAPH = EmptyGraph
  /\ PAGERANK = EmptyDict
  /\ request = [op |-> "none", args |-> NoArgs]
  /\ response = [status |-> 0, error |-> "", body |-> NoArgs]
  /\ trace = NoTrace

BuildInit ==
  /\ corpus \in Corpora
  /\ indexer = [IndexerIdle EXCEPT !.pc = "start"]
  /\ grapher = [GrapherIdle EXCEPT !.pc = "start"]
  /\ disk = NoFiles
  /\ server = "off"
  /\ Unloaded

BuildNext ==
  \/ IndexListFiles \/ IndexFile \/ IndexOpenIndex \/ IndexDumpIndex
  \/ IndexOpenBooks \/ IndexDumpBooks
  \/ GraphListBooks \/ GraphLoadBook \/ GraphAddNodes \/ GraphCompare
  \/ GraphOpen \/ GraphSave
  \/ ServerStart \/ ServerLoadIndex \/ ServerLoadBooks \/ ServerLoadGraph

SpecBuild == BuildInit /\ [][BuildNext]_vars

\* the pipeline followed by simple searches: the server answers requests
\* once its load has ended
ServeSearch == server = "serving" /\ Search
ServeNext == BuildNext \/ ServeSearch
SpecServe == BuildInit /\ [][ServeNext]_vars

(* -------------------- a build with documents over the cap -------------- *)
\* the two scripts run over two documents with MAX_WORDS_PER_BOOK scaled down
\* to CapBound, so that token sets of three and five words exceed it
CapDocs == {"A", "B"}
CapTexts == {TextCatSat, TextCatRan, TextDogsBark, TextFive}
CapCorpora == [CapDocs -> {[readable |-> TRUE, bytes |-> t] : t \in CapTexts}]

CappedInit ==
  /\ corpus \in CapCorpora
  /\ indexer = [IndexerIdle EXCEPT !.pc = "start"]
  /\ grapher = [GrapherIdle EXCEPT !.pc = "start"]
  /\ disk = NoFiles
  /\ server = "off"
  /\ Unloaded

CappedNext ==
  \/ IndexListFiles \/ IndexFile \/ IndexOpenIndex \/ IndexDumpIndex
  \/ IndexOpenBooks \/ IndexDumpBooks
  \/ GraphListBooks \/ GraphLoadBookCapped \/ GraphAddNodes \/ GraphCompare
  \/ GraphOpen \/ GraphSave

SpecCapped == CappedInit /\ [][CappedNext]_vars

(* ------------------ the server over a larger catalogue ----------------- *)
\* six documents, so that a term can have more than TopK postings and a
\* document can be linked to a lower-ranked result only
CatalogueDocs == <<"A", "B", "C", "D", "E", "F">>
\* index.json of a corpus in which cat occurs in A, B, C and D and car in D
CatalogueIndex(a, b, c, d) ==
  [index |-> (cat :> [files |-> <<"A", "B", "C", "D">>,
                      occurrences |-> ("A" :> a) @@ ("B" :> b) @@ ("C" :> c) @@ ("D" :> d)])
               @@ (car :> [files |-> <<"D">>, occurrences |-> ("D" :> 1)]),
   keys |-> <<cat, car>>,
   books |-> CatalogueDocs]
CatalogueIndexArtifacts ==
  {CatalogueIndex(3, 2, 2, 1), CatalogueIndex(1, 1, 1, 1), CatalogueIndex(1, 2, 3, 4)}

\* A - B, A - D, B - E, C - E and D - F
GraphSix ==
  [nodes |-> Range(CatalogueDocs), nodelist |-> CatalogueDocs,
   weight |-> (Edge("A", "B") :> 500000) @@ (Edge("A", "D") :> 333333)
                @@ (Edge("B", "E") :> 200000) @@ (Edge("C", "E") :> 250000)
                @@ (Edge("D", "F") :> 500000)]
\* the same with C - F
GraphSixF ==
  [GraphSix EXCEPT !.weight = @ @@ (Edge("C", "F") :> 200000)]
CatalogueGraphArtifacts == {GraphSix, GraphSixF}

\* the state of the server after its load of these artifacts
CatalogueInit ==
  /\ \E ia \in CatalogueIndexArtifacts, ga \in CatalogueGraphArtifacts :
       /\ INDEX = ia.index
       /\ INDEX_keys = ia.keys
       /\ BOOKS_LIST = ia.books
       /\ GRAPH = ga
       /\ PAGERANK = nx_pagerank(ga).scores
  /\ request = [op |-> "none", args |-> NoArgs]
  /\ response = [status |-> 0, error |-> "", body |-> NoArgs]
  /\ trace = NoTrace
  /\ BuildersIdle

SpecCatalogue == CatalogueInit /\ [][Next]_vars

(* ------------- a rebuild beside a server that starts at any time ------- *)
\* build_index run to its end over a directory
RECURSIVE RunIndexer(_, _)
RunIndexer(ix, dir) ==
  IF ix.pc = "aborted" \/ ix.i > Len(ix.files) THEN ix
  ELSE RunIndexer(IndexOneFile(ix, dir), dir)
BuildIndexOf(dir) ==
  RunIndexer([IndexerIdle EXCEPT !.pc = "indexing", !.files = SortedDocs(DOMAIN dir)], dir)
\* build_index run to its end over a directory that os.listdir lists as listing
build_index(dir, listing) ==
  RunIndexer([IndexerIdle EXCEPT !.pc = "indexing", !.files = sorted(listing)], dir)

\* build_jaccard_graph run to its end over a directory listed as books
RECURSIVE RunComparisons(_)
RunComparisons(g) == IF g.pc = "compare" THEN RunComparisons(ComparePair(g)) ELSE g
BuildGraphOf(dir, books) ==
  RunComparisons(
    [GrapherIdle EXCEPT
       !.books = books,
       !.book_words = DictOf(DOMAIN dir,
                             [b \in DOMAIN dir |-> CHOOSE w \in load_book_words(dir[b]) : TRUE]),
       !.G = [nodes |-> Range(books), nodelist |-> books, weight |-> EmptyDict],
       !.pc = IF Len(books) >= 2 THEN "compare" ELSE "save"]).G

\* the corpus of the build whose artifacts are on disk, and the documents
\* that may have joined it since
CorpusOld ==
  ("A" :> [readable |-> TRUE, bytes |-> TextCatSat])
    @@ ("B" :> [readable |-> TRUE, bytes |-> TextCatRan])
NewTexts == {TextDogsBark, TextAccents, TextInvalidOnly}

\* the artifacts of the old corpus are on disk, a document has been added, and
\* createIndex.py and jaccard.py are about to run again; the server is not
\* running
RebuildInit ==
  /\ \E t \in NewTexts : corpus = CorpusOld @@ ("C" :> [readable |-> TRUE, bytes |-> t])
  /\ \E books \in Perms(DOMAIN CorpusOld) :
       disk = [index_json |-> Written(IndexJson(BuildIndexOf(CorpusOld))),
               books_list_json |-> Written(BuildIndexOf(CorpusOld).book_list),
               graph |-> Written(BuildGraphOf(CorpusOld, books))]
  /\ indexer = [IndexerIdle EXCEPT !.pc = "start"]
  /\ grapher = [GrapherIdle EXCEPT !.pc = "start"]
  /\ server = "off"
  /\ Unloaded

\* python app.py: nothing makes the start of the server wait for a build
ServerStartAnyTime ==
  /\ server = "off"
  /\ server' = "load_index"
  /\ UNCHANGED <<corpus, indexer, grapher, disk, data, request, response, trace>>

RebuildNext ==
  \/ IndexListFiles \/ IndexFile \/ IndexOpenIndex \/ IndexDumpIndex
  \/ IndexOpenBooks \/ IndexDumpBooks
  \/ GraphListBooks \/ GraphLoadBook \/ GraphAddNodes \/ GraphCompare
  \/ GraphOpen \/ GraphSave
  \/ ServerStartAnyTime \/ ServerLoadIndex \/ ServerLoadBooks \/ ServerLoadGraph

SpecRebuild == RebuildInit /\ [][RebuildNext]_vars

(* ------------------ the work of pattern.search(word) ------------------- *)
\* The steps of the backtracking matcher: one per pattern position tried at
\* a word position.  A starred atom takes the longest run first and gives
\* characters back one by one.
RECURSIVE HereSteps(_, _, _, _)
RECURSIVE StarSteps(_, _, _, _, _)
Step(r) == [ok |-> r.ok, steps |-> r.steps + 1]
Failed == [ok |-> FALSE, steps |-> 1]

\* the end of the longest run of the atom p[i] from position j of w
LongestRun(p, i, w, j) ==
  CHOOSE k \in j..(Len(w) + 1) :
    /\ \A m \in j..(k - 1) : AtomMatches(p[i], w[m])
    /\ (k = Len(w) + 1 \/ ~AtomMatches(p[i], w[k]))

StarSteps(p, i, w, j, k) ==
  LET r == HereSteps(p, i + 2, w, k)
  IN IF r.ok \/ k = j THEN r
     ELSE LET rest == StarSteps(p, i, w, j, k - 1)
          IN [ok |-> rest.ok, steps |-> r.steps + rest.steps]

HereSteps(p, i, w, j) ==
  IF i > Len(p) THEN [ok |-> TRUE, steps |-> 1]
  ELSE IF p[i] = "^" THEN (IF j = 1 THEN Step(HereSteps(p, i + 1, w, j)) ELSE Failed)
  ELSE IF p[i] = "$"
       THEN (IF j = Len(w) + 1 THEN Step(HereSteps(p, i + 1, w, j)) ELSE Failed)
  ELSE IF i + 1 <= Len(p) /\ p[i + 1] = "*"
       THEN Step(StarSteps(p, i, w, j, LongestRun(p, i, w, j)))
  ELSE IF j <= Len(w) /\ AtomMatches(p[i], w[j]) THEN Step(HereSteps(p, i + 1, w, j + 1))
  ELSE Failed

\* pattern.search(word): the start positions from the left, up to the first
\* at which the pattern matches
RECURSIVE SearchSteps(_, _, _)
SearchSteps(p, w, j) ==
  LET r == HereSteps(p, 1, w, j)
  IN IF r.ok \/ j = Len(w) + 1 THEN r
     ELSE LET rest == SearchSteps(p, w, j + 1)
          IN [ok |-> rest.ok, steps |-> r.steps + rest.steps]

\* [word for word in INDEX.keys() if pattern.search(word)]: the steps of the
\* whole comprehension
EvaluationSteps(pattern) ==
  SumOver(DOMAIN INDEX, [word \in DOMAIN INDEX |-> SearchSteps(pattern, word, 1).steps])

\* the execution budget of one pattern evaluation, in matcher steps
PatternBudget == 100

(* ===================== properties of the query server ================== *)
ReqQuery == Strip(ArgsGet(request.args, "query", <<>>))
ReqPattern == Strip(ArgsGet(request.args, "regex", <<>>))
ReqRanking == ArgsGet(request.args, "ranking", "hybrid")
IsRanked == request.op \in {"search", "advanced_search"}
HasResults == response.status = 200 /\ "results" \in DOMAIN response.body
Results == response.body.results
ResultFiles == {Results[i].filename : i \in 1..Len(Results)}
Authority(d) == IF d \in DOMAIN PAGERANK THEN PAGERANK[d] ELSE 0
Postings(t, d) == IF d \in DOMAIN INDEX[t].occurrences THEN INDEX[t].occurrences[d] ELSE 0
\* the vocabulary terms the request's pattern matches
MatchedTerms == {t \in DOMAIN INDEX : PatternSearch(ReqPattern, t)}
\* the term whose postings rank_results reads for the request
RankedWord ==
  IF request.op = "search" THEN normalize_text(ReqQuery)
  ELSE INDEX_keys[CHOOSE i \in 1..Len(INDEX_keys) :
                    /\ INDEX_keys[i] \in MatchedTerms
                    /\ \A j \in 1..(i - 1) : INDEX_keys[j] \notin MatchedTerms]

\* C1: the result list of search and advancedSearch is sorted by score in
\* non-increasing order, and results with equal score are in ascending
\* lexicographic order of document id, whatever order the candidates were
\* handed over in.
C1_SortedWithIdTieBreak ==
  (IsRanked /\ HasResults) =>
    \A i, j \in 1..Len(Results) :
      i < j =>
        /\ Results[i].score >= Results[j].score
        /\ Results[i].score = Results[j].score => IdLess(Results[i].filename, Results[j].filename)

\* C2: in advancedSearch the occurrence count of every result is the sum of
\* the document's counts over all matching terms, hence at least 1.
C2_OccurrencesSummed ==
  (request.op = "advanced_search" /\ HasResults) =>
    \A i \in 1..Len(Results) :
      /\ Results[i].occurrences =
           SumOver(MatchedTerms, [t \in MatchedTerms |-> Postings(t, Results[i].filename)])
      /\ Results[i].occurrences >= 1

\* C3: the ranking mode selects the score: in mode "occurrences" the score
\* of every result is its occurrence count, in mode "pagerank" it is its
\* authority score.
C3_ModeSelectsScore ==
  (IsRanked /\ HasResults) =>
    \A i \in 1..Len(Results) :
      /\ ReqRanking = "occurrences" => Results[i].score = Results[i].occurrences * PRUnit
      /\ ReqRanking = "pagerank" => Results[i].score = Authority(Results[i].filename)

\* C4: in hybrid mode (the default) the score of every result is
\* occurrences * (1 + authority * 10), with occurrences the posting of the
\* ranked term for the document or 0 and authority the document's score or
\* 0; the score is non-decreasing in each of the two with the other fixed.
C4_HybridScore ==
  (IsRanked /\ HasResults /\ ReqRanking = "hybrid") =>
    /\ \A i \in 1..Len(Results) :
         LET r == Results[i]
         IN /\ r.occurrences = Postings(RankedWord, r.filename)
            /\ r.score = r.occurrences * PRUnit + r.occurrences * Authority(r.filename) * 10
    /\ \A i, j \in 1..Len(Results) :
         LET a == Results[i]
             b == Results[j]
         IN /\ (Authority(a.filename) = Authority(b.filename)
                  /\ a.occurrences <= b.occurrences) => a.score <= b.score
            /\ (a.occurrences = b.occurrences
                  /\ Authority(a.filename) <= Authority(b.filename)) => a.score <= b.score

\* a hybrid answer that holds a document without a posting for the ranked
\* term, a document without an authority entry, and a boosted score
C4_Witness ==
  /\ IsRanked /\ HasResults /\ ReqRanking = "hybrid"
  /\ \E i \in 1..Len(Results) : Results[i].occurrences = 0
  /\ \E i \in 1..Len(Results) : Results[i].filename \notin DOMAIN PAGERANK
  /\ \E i \in 1..Len(Results) : Results[i].score > Results[i].occurrences * PRUnit

\* C5: for every pattern that compiles, the matching words advancedSearch
\* reports are vocabulary terms the pattern matches (all of them up to the
\* preview of 20), and the documents of the result list are exactly the
\* union of the postings of all matching terms, each document once.
C5_MatchesAndCandidates ==
  (request.op = "advanced_search" /\ ReqPattern # <<>> /\ Compiles(ReqPattern)) =>
    /\ HasResults
    /\ ResultFiles = UNION {DOMAIN INDEX[t].occurrences : t \in MatchedTerms}
    /\ Cardinality(ResultFiles) = Len(Results)
    /\ response.body.count = Len(Results)
    /\ MatchedTerms # {} =>
         LET preview == response.body.matching_words
         IN /\ Range(preview) \subseteq MatchedTerms
            /\ Cardinality(Range(preview)) = Len(preview)
            /\ Len(preview) = IF Cardinality(MatchedTerms) > PreviewCap
                              THEN PreviewCap ELSE Cardinality(MatchedTerms)

\* more than 20 terms match, and a document is reached only through a term
\* beyond the preview
C5_Witness ==
  /\ request.op = "advanced_search" /\ HasResults
  /\ Cardinality(MatchedTerms) > PreviewCap
  /\ \E d \in ResultFiles :
       \A t \in Range(response.body.matching_words) : d \notin DOMAIN INDEX[t].occurrences

\* C6: search, advancedSearch and suggestions with an empty, blank or
\* missing term or pattern answer with the empty-query error, never with a
\* result, and do so before the index is consulted.
C6_EmptyQueryRejected ==
  /\ (request.op \in {"search", "suggestions"} /\ ReqQuery = <<>>) =>
       (response = ErrorResponse(400, "empty_query") /\ ~trace.indexRead)
  /\ (request.op = "advanced_search" /\ ReqPattern = <<>>) =>
       (response = ErrorResponse(400, "empty_query") /\ ~trace.indexRead)

\* The empty-query check of C6 for the requests whose top_n is absent or an
\* integer.
EmptyQueryRejected_IntegerTopN ==
  (request.op = "suggestions" => TopN(request.args).ok) => C6_EmptyQueryRejected

C8_UnknownIsEmptySuccess ==
  /\ (request.op = "search" /\ ReqQuery # <<>> /\ normalize_text(ReqQuery) \notin DOMAIN INDEX) =>
       (HasResults /\ Results = <<>> /\ response.body.count = 0)
  /\ (request.op = "suggestions" /\ ReqQuery # <<>>
        /\ normalize_text(ReqQuery) \notin DOMAIN INDEX) =>
       (response.status = 200 /\ "suggestions" \in DOMAIN response.body
          /\ response.body.suggestions = <<>>)
  /\ (request.op = "advanced_search" /\ ReqPattern # <<>> /\ Compiles(ReqPattern)
        /\ MatchedTerms = {}) =>
       (HasResults /\ Results = <<>> /\ response.body.count = 0)

\* The empty success of C8 for the requests whose top_n is absent or an
\* integer.
UnknownIsEmptySuccess_IntegerTopN ==
  (request.op = "suggestions" => TopN(request.args).ok) => C8_UnknownIsEmptySuccess

\* C9: documentInfo answers not-found if and only if the id is not in the
\* document list; otherwise it returns the document's authority score,
\* graph degree and graph membership, which are 0, 0 and false for a
\* document that is no node of the graph.
C9_DocumentInfo ==
  request.op = "get_book" =>
    LET f == request.args.filename
        listed == \E i \in 1..Len(BOOKS_LIST) : BOOKS_LIST[i] = f
    IN /\ (response.status = 404 /\ response.error = "not_found") <=> ~listed
       /\ listed =>
            /\ response.status = 200
            /\ response.body.filename = f
            /\ response.body.in_graph = (f \in GRAPH.nodes)
            /\ response.body.graph_degree =
                 Cardinality({e \in DOMAIN GRAPH.weight : f \in e})
            /\ response.body.pagerank = Round6(Authority(f))
            /\ f \notin GRAPH.nodes =>
                 /\ response.body.pagerank = 0
                 /\ response.body.graph_degree = 0
                 /\ response.body.in_graph = FALSE

\* a listed document that is no node of the graph was looked up
C9_Witness ==
  /\ request.op = "get_book"
  /\ request.args.filename \notin GRAPH.nodes
  /\ response.status = 200
  /\ response.body.in_graph = FALSE

\* C10: suggestions never fails with an exception the handler does not turn
\* into a typed error (a top_n that is no integer included), and a negative
\* top_n returns no more suggestions than a top_n of 0, that is none.
C10_TypedFailure ==
  request.op = "suggestions" =>
    /\ response.status # 500
    /\ (TopN(request.args).ok /\ TopN(request.args).value < 0
          /\ response.status = 200 /\ "suggestions" \in DOMAIN response.body) =>
         response.body.suggestions = <<>>

\* The two parts of C10, each on its own: no unhandled exception; nothing
\* returned for a negative top_n.
NoUnhandledException == request.op = "suggestions" => response.status # 500
NegativeTopNReturnsNone ==
  (request.op = "suggestions" /\ TopN(request.args).ok /\ TopN(request.args).value < 0
     /\ response.status = 200 /\ "suggestions" \in DOMAIN response.body) =>
    response.body.suggestions = <<>>

(* ========================= properties of the builders ================== *)
\* the token sets build_jaccard_graph has loaded so far
LoadedSets == {grapher.book_words[b] : b \in DOMAIN grapher.book_words}
One == [num |-> 1, den |-> 1]
\* |A n B| / |A u B| as a quotient in lowest terms, 0 when the union is empty
Similarity(A, B) ==
  IF A \cup B = {} THEN Zero
  ELSE LET g == Gcd(Cardinality(A \cap B), Cardinality(A \cup B))
       IN [num |-> Cardinality(A \cap B) \div g, den |-> Cardinality(A \cup B) \div g]
\* the token set of a document of the corpus as the graph builder reads it
TokenSetOf(d) ==
  IF corpus[d].readable THEN tokenize_text(Decode(corpus[d].bytes)) ELSE {}
GraphBuilt == grapher.pc = "done"

\* C11: calculate_jaccard is symmetric, is exactly 1 on (A, A) for a non-empty
\* A, is exactly 0 when both sets are empty, and for all A, B is
\* |A n B| / |A u B|, a value in [0, 1], also when exactly one set is empty.
C11_JaccardAlgebra ==
  \A A \in LoadedSets, B \in LoadedSets :
    LET r == calculate_jaccard(A, B)
    IN /\ r = calculate_jaccard(B, A)
       /\ (A # {} => calculate_jaccard(A, A) = One)
       /\ (A = {} /\ B = {} => r = Zero)
       /\ r.den > 0 /\ 0 <= r.num /\ r.num <= r.den
       /\ (A \cup B # {} =>
             r.num * Cardinality(A \cup B) = r.den * Cardinality(A \cap B))

\* the comparison loop has compared an empty set with a non-empty one, two
\* equal non-empty sets and two overlapping different sets
C11_Witness ==
  /\ grapher.comparisons_done = 3
  /\ {} \in LoadedSets
  /\ \E b1, b2 \in DOMAIN grapher.book_words :
       b1 # b2 /\ grapher.book_words[b1] = grapher.book_words[b2]
         /\ grapher.book_words[b1] # {}
  /\ Cardinality(DOMAIN grapher.G.weight) = 1

\* the words of a document that build_index counts, in text order
IsCleaned(word) == word # None
TokenStream(d) ==
  LET words == Split(index_normalize_text(Decode(corpus[d].bytes)))
  IN SelectSeq([i \in 1..Len(words) |-> clean_word(words[i])], IsCleaned)
\* document -> token stream, for the whole corpus
TokenStreams == DictOf(DOMAIN corpus, [d \in DOMAIN corpus |-> TokenStream(d)])
Occurrences(t, stream) == Cardinality({i \in 1..Len(stream) : stream[i] = t})
IndexWritten == disk.index_json.exists /\ disk.index_json.complete
WrittenIndex == disk.index_json.content.index

\* C12: in every index build_index writes, a term has a posting for a
\* document iff the term occurs in the document's token stream, the stored
\* count is at least 1 and is the number of occurrences, and the counts of a
\* term add up to its occurrences in the whole corpus.
C12_IndexCountsOccurrences ==
  IndexWritten =>
    LET streams == TokenStreams
    IN /\ DOMAIN WrittenIndex = UNION {Range(streams[d]) : d \in DOMAIN corpus}
       /\ \A t \in DOMAIN WrittenIndex :
            /\ Range(WrittenIndex[t].files) = DOMAIN WrittenIndex[t].occurrences
            /\ Len(WrittenIndex[t].files) = Cardinality(DOMAIN WrittenIndex[t].occurrences)
            /\ \A d \in DOMAIN corpus :
                 /\ d \in DOMAIN WrittenIndex[t].occurrences
                      <=> Occurrences(t, streams[d]) >= 1
                 /\ d \in DOMAIN WrittenIndex[t].occurrences =>
                      /\ WrittenIndex[t].occurrences[d] >= 1
                      /\ WrittenIndex[t].occurrences[d] = Occurrences(t, streams[d])
            /\ SumOver(DOMAIN WrittenIndex[t].occurrences, WrittenIndex[t].occurrences)
                 = SumOver(DOMAIN corpus,
                           [d \in DOMAIN corpus |-> Occurrences(t, streams[d])])

\* an index is written in which a term occurs twice in one document and once
\* in another, and a document has no posting at all
C12_Witness ==
  /\ IndexWritten
  /\ \E t \in DOMAIN WrittenIndex : \E d1, d2 \in DOMAIN WrittenIndex[t].occurrences :
       WrittenIndex[t].occurrences[d1] = 2 /\ WrittenIndex[t].occurrences[d2] = 1
  /\ \E d \in DOMAIN corpus : \A t \in DOMAIN WrittenIndex :
       d \notin DOMAIN WrittenIndex[t].occurrences

FailedDocs == {d \in DOMAIN corpus : ~corpus[d].readable}

\* C13: a document that cannot be read never aborts a build: build_index and
\* build_jaccard_graph complete, and the document is in no posting, not in
\* the document list and not a node of the graph.
C13_FailedDocumentIsSkipped ==
  /\ indexer.pc # "aborted"
  /\ indexer.pc = "done" =>
       \A d \in FailedDocs :
         /\ d \notin Range(indexer.book_list)
         /\ \A t \in DOMAIN indexer.index : d \notin DOMAIN indexer.index[t].value
  /\ GraphBuilt => \A d \in FailedDocs : d \notin grapher.G.nodes

\* the graph part of C13 alone: a document that cannot be read is no node
FailedDocumentIsNoNode ==
  GraphBuilt => \A d \in FailedDocs : d \notin grapher.G.nodes

PRTolerance == 10 * Tol

\* C17: the scores computed at server start are non-negative, have one entry
\* for every node of the graph, sum to 1 within the tolerance, and the score
\* of every node of degree 0 is strictly positive.
C17_AuthorityIsADistribution ==
  server = "serving" =>
    /\ DOMAIN PAGERANK = GRAPH.nodes
    /\ \A n \in GRAPH.nodes : PAGERANK[n] >= 0
    /\ GRAPH.nodes # {} => Abs(SumOver(GRAPH.nodes, PAGERANK) - PRUnit) <= PRTolerance
    /\ \A n \in GRAPH.nodes : Degree(GRAPH, n) = 0 => PAGERANK[n] > 0

\* the server has loaded a graph with an edge and an isolated node
C17_Witness ==
  /\ server = "serving"
  /\ NumberOfEdges(GRAPH) = 1
  /\ \E n \in GRAPH.nodes : Degree(GRAPH, n) = 0 /\ PAGERANK[n] > 0
  /\ \E n \in GRAPH.nodes : Degree(GRAPH, n) = 1 /\ PAGERANK[n] > PRUnit \div 3

\* C19: in the built graph two distinct documents are linked iff the
\* similarity of their token sets is at least 0.1, the weight of the edge is
\* that similarity, and a pair at exactly 0.1 is linked.
C19_EdgesAreSimilarities ==
  GraphBuilt =>
    LET S == DictOf(DOMAIN corpus, [d \in DOMAIN corpus |-> TokenSetOf(d)])
    IN \A b1 \in DOMAIN corpus, b2 \in DOMAIN corpus :
         b1 # b2 =>
           LET s == Similarity(S[b1], S[b2])
           IN /\ HasEdge(grapher.G, b1, b2) <=> 10 * s.num >= s.den
              /\ HasEdge(grapher.G, b1, b2) => grapher.G.weight[Edge(b1, b2)] = s

\* a graph is built with a pair at exactly 1/10, which is linked, and a pair
\* at 1/11, which is not
C19_Witness ==
  /\ GraphBuilt
  /\ \E e \in DOMAIN grapher.G.weight : grapher.G.weight[e] = [num |-> 1, den |-> 10]
  /\ \E b1, b2 \in DOMAIN corpus :
       /\ Similarity(TokenSetOf(b1), TokenSetOf(b2)) = [num |-> 1, den |-> 11]
       /\ ~HasEdge(grapher.G, b1, b2)

\* C20: in the graph built from a non-empty corpus the nodes are exactly the
\* documents of the corpus, no edge is a self-edge, every edge joins one
\* unordered pair of nodes, comparisons_done is D(D-1)/2 and edges_added is
\* the number of edges.
C20_GraphShape ==
  GraphBuilt =>
    LET D == Cardinality(DOMAIN corpus)
    IN /\ grapher.G.nodes = DOMAIN corpus
       /\ Len(grapher.G.nodelist) = D
       /\ \A e \in DOMAIN grapher.G.weight : Cardinality(e) = 2 /\ e \subseteq grapher.G.nodes
       /\ 2 * grapher.comparisons_done = D * (D - 1)
       /\ grapher.edges_added = NumberOfEdges(grapher.G)

\* a graph of three documents is built in which a document with an empty
\* token set is an isolated node beside an edge
C20_Witness ==
  /\ GraphBuilt
  /\ Cardinality(DOMAIN corpus) = 3
  /\ \E d \in grapher.G.nodes : grapher.book_words[d] = {} /\ Degree(grapher.G, d) = 0
  /\ grapher.edges_added = 1

(* ================= properties across server and builders =============== *)
\* C14: no request handler adds, removes or changes any entry of the loaded
\* index, document list, graph or authority scores: after any sequence of
\* requests they are what the one-time load made them.
C14_HandlersLeaveDataAlone == [][data' = data]_vars

\* a search has been answered with two ranked documents in an order that is
\* not the order of the posting list
C14_Witness ==
  /\ request.op = "search"
  /\ HasResults
  /\ Len(Results) = 2
  /\ INDEX[normalize_text(ReqQuery)].files # <<Results[1].filename, Results[2].filename>>

\* C16: the evaluation of a pattern over the vocabulary either finishes
\* within the execution budget or is cut off and answered with the
\* pattern-timeout error.
C16_PatternBudget ==
  (request.op = "advanced_search" /\ ReqPattern # <<>> /\ Compiles(ReqPattern)) =>
    \/ EvaluationSteps(ReqPattern) <= PatternBudget
    \/ response.error = "pattern_timeout"

\* the step count agrees with the matcher on whether a word matches
StepsAgreeWithSearch ==
  request.op = "advanced_search" /\ Compiles(ReqPattern) =>
    \A word \in DOMAIN INDEX :
      SearchSteps(ReqPattern, word, 1).ok <=> PatternSearch(ReqPattern, word)

\* no request is ever answered with a pattern timeout
NeverPatternTimeout == response.error # "pattern_timeout"

\* the server holds the artifacts of one build of the directory dir
LoadedFrom(dir) ==
  /\ INDEX = IndexJson(BuildIndexOf(dir)).index
  /\ BOOKS_LIST = BuildIndexOf(dir).book_list
  /\ GRAPH.nodes = DOMAIN dir
  /\ GRAPH.weight = Unpickle(BuildGraphOf(dir, SortedDocs(DOMAIN dir))).weight

\* C15: a server that loads while a rebuild runs reads each file entirely in
\* its old or entirely in its new version, and ends up with an index, a
\* document list and a graph that all come from the same corpus.
C15_LoadIsOneSnapshot ==
  /\ server # "crashed"
  /\ server = "serving" => LoadedFrom(CorpusOld) \/ LoadedFrom(corpus)

\* the second half of C15 alone: a mix of builds is served
ServedArtifactsAreOneSnapshot ==
  server = "serving" => LoadedFrom(CorpusOld) \/ LoadedFrom(corpus)

cafe == <<"c", "a", "f", "e">>
\* spellings that differ from an index key in letter case only
CaseVariants ==
  {[query |-> <<"C", "A", "T">>, key |-> cat], [query |-> <<"C", "a", "t">>, key |-> cat],
   [query |-> <<"C", "A", "f", "E">>, key |-> cafe]}
\* spellings that differ from an index key in a diacritic
AccentVariants ==
  {[query |-> <<"c", "a", "f", "e_acute">>, key |-> cafe],
   [query |-> <<"C", "a", "f", "e_acute">>, key |-> cafe]}
\* the server normalizes the spelling to the key and answers it like the key
SameAsKey(v) ==
  v.key \in DOMAIN INDEX =>
    /\ normalize_text(Strip(v.query)) = v.key
    /\ search([query |-> v.query]).response.body.results
         = search([query |-> v.key]).response.body.results

\* C18: a query that differs from an indexed token only in letter case or in
\* diacritics is normalized by the server to the key the index builder
\* stored and returns the results of the key.
C18_CaseAndAccentInsensitive ==
  server = "serving" => \A v \in CaseVariants \cup AccentVariants : SameAsKey(v)

\* the part of C18 about letter case alone
CaseInsensitiveLookup ==
  server = "serving" => \A v \in CaseVariants : SameAsKey(v)

\* a server that serves an index with the keys cat and cafe
CaseInsensitiveLookup_Witness ==
  server = "serving" /\ cat \in DOMAIN INDEX /\ cafe \in DOMAIN INDEX

(* ===================== the two builders on one corpus ================== *)
ExampleCorpus ==
  ("A" :> [readable |-> TRUE, bytes |-> TextCatSat])
    @@ ("B" :> [readable |-> TRUE, bytes |-> TextCatRan])
    @@ ("C" :> [readable |-> TRUE, bytes |-> TextDogsBark])
sat == <<"s", "a", "t">>
ran == <<"r", "a", "n">>
dogs == <<"d", "o", "g", "s">>
bark == <<"b", "a", "r", "k">>
\* the terms of the built index that have a posting for a document
IndexTermsOf(d) == {t \in DOMAIN indexer.index : d \in DOMAIN indexer.index[t].value}
BothBuilt == indexer.pc = "done" /\ GraphBuilt

\* C21: the graph builder and the index builder use the same tokens: the
\* token set of every document used for the Jaccard similarity is the set of
\* index terms with a posting for the document, and on the example corpus the
\* token sets are A = {cat, sat}, B = {cat, ran}, C = {dogs, bark} and the
\* edge A-B has weight 1/3.
C21_SameTokens ==
  BothBuilt =>
    /\ \A d \in DOMAIN corpus : grapher.book_words[d] = IndexTermsOf(d)
    /\ corpus = ExampleCorpus =>
         /\ grapher.book_words["A"] = {cat, sat}
         /\ grapher.book_words["B"] = {cat, ran}
         /\ grapher.book_words["C"] = {dogs, bark}
         /\ Edge("A", "B") \in DOMAIN grapher.G.weight
         /\ grapher.G.weight[Edge("A", "B")] = Quotient(1, 3)

\* the second half of C21 alone, with the token sets the code computes: on
\* the example corpus the stopword stays in the graph builder's sets and the
\* edge A-B has weight 2/4
ExampleTokenSets ==
  (BothBuilt /\ corpus = ExampleCorpus) =>
    /\ grapher.book_words["A"] = {<<"t", "h", "e">>, cat, sat}
    /\ grapher.book_words["B"] = {<<"t", "h", "e">>, cat, ran}
    /\ grapher.book_words["C"] = {dogs, bark}
    /\ IndexTermsOf("A") = {cat, sat} /\ IndexTermsOf("B") = {cat, ran}
    /\ IndexTermsOf("C") = {dogs, bark}
    /\ grapher.G.weight[Edge("A", "B")] = Quotient(1, 2)
    /\ DOMAIN grapher.G.weight = {Edge("A", "B")}

\* build_index has just returned
IndexBuilt == indexer.pc = "done" /\ grapher.pc = "start"

\* C22: build_index is order-independent: in whatever order the documents of
\* the directory are listed, the run writes the same index (the same terms in
\* the same order, the same counts per document and the same files list for
\* every term) and the same document list.
C22_OrderIndependent ==
  IndexBuilt =>
    \A listing \in Perms(DOMAIN corpus) :
      LET other == build_index(corpus, listing)
      IN /\ other.pc = "indexing"
         /\ IndexJson(other) = disk.index_json.content
         /\ other.book_list = disk.books_list_json.content

\* an index has been built from three documents, and a term has postings in
\* two of them, so that a files list has an order
C22_Witness ==
  /\ IndexBuilt
  /\ Cardinality(DOMAIN corpus) = 3
  /\ \E t \in DOMAIN WrittenIndex : Len(WrittenIndex[t].files) >= 2
  /\ Len(disk.index_json.content.keys) >= 2

(* ========================= the cap on the token set ==================== *)
\* the token sets another run of the build can keep for a document
OtherRuns(d) == load_book_words_capped(corpus[d], CapBound)
OverCap(d) == Cardinality(TokenSetOf(d)) > CapBound

\* C23: the truncation of a token set over the cap is deterministic: every
\* other run of the graph build over the same documents keeps the token sets
\* this run kept, and so links the same documents with the same weights.
C23_TruncationDeterministic ==
  GraphBuilt =>
    /\ \A d \in DOMAIN corpus : \A words \in OtherRuns(d) : words = grapher.book_words[d]
    /\ \A d1, d2 \in DOMAIN corpus : \A w1 \in OtherRuns(d1), w2 \in OtherRuns(d2) :
         d1 # d2 =>
           LET jaccard == calculate_jaccard(w1, w2)
           IN IF AtLeast(jaccard, JACCARD_THRESHOLD)
              THEN /\ Edge(d1, d2) \in DOMAIN grapher.G.weight
                   /\ grapher.G.weight[Edge(d1, d2)] = jaccard
              ELSE Edge(d1, d2) \notin DOMAIN grapher.G.weight

\* what the truncation does guarantee: the kept set has exactly the cap's
\* size and holds only tokens of the document, and a set within the cap is
\* kept whole
TruncationKeepsCapTokens ==
  \A d \in DOMAIN grapher.book_words :
    /\ grapher.book_words[d] \subseteq TokenSetOf(d)
    /\ IF OverCap(d) THEN Cardinality(grapher.book_words[d]) = CapBound
       ELSE grapher.book_words[d] = TokenSetOf(d)

\* a build has ended in which a document over the cap was truncated
TruncationKeepsCapTokens_Witness ==
  GraphBuilt /\ \E d \in DOMAIN corpus : OverCap(d) /\ grapher.book_words[d] # TokenSetOf(d)

(* ============================== suggestions ============================ *)
PostedDocs(t) == DOMAIN INDEX[t].occurrences
\* occurrences * (1 + authority * 10) in units of 1/PRUnit
HybridOf(t, d) == Postings(t, d) * PRUnit + Postings(t, d) * Authority(d) * 10
Smaller(a, b) == IF a < b THEN a ELSE b
\* S holds the TopK best hybrid-ranked documents of the term
IsTopSet(S, t) ==
  /\ S \subseteq PostedDocs(t)
  /\ Cardinality(S) = Smaller(TopK, Cardinality(PostedDocs(t)))
  /\ \A d \in S, e \in PostedDocs(t) \ S : HybridOf(t, d) >= HybridOf(t, e)
\* suggestions for a known term have been answered
SuggestionsAnswered ==
  request.op = "suggestions" /\ response.status = 200 /\ "top_results" \in DOMAIN response.body
TopDocs == response.body.top_results
Suggested == response.body.suggestions
TopSet == {TopDocs[i].filename : i \in 1..Len(TopDocs)}
\* the neighbours of the top documents that are no top documents themselves
Candidates == (UNION {Neighbors(GRAPH, d) : d \in TopSet \cap GRAPH.nodes}) \ TopSet
AskedTopN == TopN(request.args).value

AdjacentTops(s) == {k \in 1..Len(TopDocs) : HasEdge(GRAPH, TopDocs[k].filename, s)}
\* the highest-ranked of them
BestAdjacentTop(s) ==
  TopDocs[CHOOSE k \in AdjacentTops(s) : \A m \in AdjacentTops(s) : k <= m].filename

\* C25: the similarity reported for a suggestion is the weight of the edge
\* between the suggestion and the highest-ranked top document it is adjacent
\* to; it is never 0 but at least the graph threshold, also when the
\* suggestion is adjacent to the 2nd or 3rd ranked top document only.
C25_SimilarityOfBestAdjacentTop ==
  SuggestionsAnswered =>
    \A i \in 1..Len(Suggested) :
      LET s == Suggested[i].filename
      IN /\ AdjacentTops(s) # {}
         /\ Suggested[i].similarity_score
              = Round4(GRAPH.weight[Edge(BestAdjacentTop(s), s)])
         /\ Suggested[i].similarity_score # 0
         /\ Suggested[i].similarity_score >= FloatOf(JACCARD_THRESHOLD)

\* what the code reports: the weight of the edge to the first top document,
\* and 0 for a suggestion that is not adjacent to it
SimilarityOfFirstTop ==
  SuggestionsAnswered =>
    \A i \in 1..Len(Suggested) :
      LET s == Suggested[i].filename
      IN /\ AdjacentTops(s) # {}
         /\ Suggested[i].similarity_score
              = IF 1 \in AdjacentTops(s)
                THEN Round4(GRAPH.weight[Edge(TopDocs[1].filename, s)])
                ELSE 0

\* a suggestion adjacent to the third top document only is returned beside
\* one adjacent to the first
SimilarityOfFirstTop_Witness ==
  /\ SuggestionsAnswered
  /\ \E i \in 1..Len(Suggested) :
       AdjacentTops(Suggested[i].filename) = {3} /\ Suggested[i].similarity_score = 0
  /\ \E i \in 1..Len(Suggested) :
       1 \in AdjacentTops(Suggested[i].filename) /\ Suggested[i].similarity_score > 0

(* ===================== search over a built index ======================= *)
\* the server built from the corpus has answered a search for a known term
SearchAnswered ==
  /\ server = "serving" /\ request.op = "search" /\ HasResults
  /\ normalize_text(ReqQuery) \in DOMAIN INDEX
ResultNames == [i \in 1..Len(Results) |-> Results[i].filename]

\* C26: over an index that build_index produced and the server loaded, a
\* simple search by a known term returns exactly the documents with a posting
\* for the term (the documents whose token stream holds it), each once and
\* with an occurrence count of at least 1; results of equal score are in
\* ascending order of the document id; on the example corpus the hybrid
\* search for cat returns A, B in that order.
C26_SearchOverBuiltIndex ==
  SearchAnswered =>
    LET t == normalize_text(ReqQuery)
        streams == TokenStreams
    IN /\ ResultFiles = {d \in DOMAIN corpus : Occurrences(t, streams[d]) >= 1}
       /\ ResultFiles = DOMAIN INDEX[t].occurrences
       /\ Len(Results) = Cardinality(ResultFiles)
       /\ \A i \in 1..Len(Results) :
            /\ Results[i].occurrences >= 1
            /\ Results[i].occurrences = Occurrences(t, streams[Results[i].filename])
            /\ \A j \in 1..Len(Results) :
                 (i < j /\ Results[i].score = Results[j].score) =>
                   IdLess(Results[i].filename, Results[j].filename)
       /\ (corpus = ExampleCorpus /\ t = cat /\ ReqRanking = "hybrid") =>
            ResultNames = <<"A", "B">>

\* the hybrid search for cat on the example corpus has returned A and B with
\* equal scores and not C
C26_Witness ==
  /\ SearchAnswered /\ corpus = ExampleCorpus
  /\ normalize_text(ReqQuery) = cat /\ "ranking" \in DOMAIN request.args
  /\ ReqRanking = "hybrid"
  /\ Len(Results) = 2 /\ Results[1].score = Results[2].score
  /\ "C" \notin ResultFiles

\* a document with the higher score is returned before one of a smaller id
SearchOverBuiltIndex_ScoreFirst ==
  /\ SearchAnswered
  /\ \E i, j \in 1..Len(Results) :
       i < j /\ Results[i].score > Results[j].score
         /\ IdLess(Results[j].filename, Results[i].filename)

====
